---- MODULE Spec2Model ----
(***************************************************************************)
(* The Scrapy scheduler (scrapy/core/scheduler/schedulers.py): the domain  *)
(* admission bookkeeping (pending_domains, domains_queue), the per-domain  *)
(* request queues (pending_requests) and the seven operations on them.     *)
(* The priority containers of scrapy.utils.datatypes are modelled by their *)
(* contract: push(item, priority) / pop() -> (item, priority).             *)
(***************************************************************************)
EXTENDS Integers, Sequences, FiniteSets, TLC

(* ------------------------------ bounds -------------------------------- *)
\* number of domains_queue.push calls explored (effective add_domain calls)
MaxAdds == 2
\* number of Deferreds created by enqueue_request under Spec
MaxDfd == 1
\* number of Deferreds created by enqueue_request under SpecRequests
MaxDfdReq == 3

Domains == {"d1", "d2"}
\* the domains of the add-then-drain runs
DrainDomains == {"d1", "d2", "d3"}
\* the priorities add_domain is called with (0 is its default)
Priorities == {0, 1}
\* request objects: only the attribute the scheduler reads (request.priority)
R1 == [name |-> "R1", priority |-> 1]
R2 == [name |-> "R2", priority |-> 1]
R3 == [name |-> "R3", priority |-> 2]
Requests == {R1, R2, R3}

VARIABLES
    pending_domains,   \* self.pending_domains: set of domains
    domains_queue,     \* self.domains_queue: a PriorityQueue of domains
    pending_requests,  \* self.pending_requests: dict domain -> container
    dfo,               \* self.dfo
    nextDfd,           \* identity of the next defer.Deferred() object
    lastOp,            \* the last call: its arguments, the facts it met, its outcome
    added,             \* history: the (domain, priority) pushes of add_domain, in order
    returned,          \* history: the domains returned by next_domain, in order
    lifecycle,         \* history: the callers followed Pending -> claimed -> Open so far
    claimed,           \* history, kept while lifecycle holds: the domains returned by
                       \* next_domain and not opened since
    live               \* history: the (domain, request, Deferred) of every
                       \* enqueue_request whose pair was neither returned by
                       \* next_request nor discarded with its domain's queue

vars == << pending_domains, domains_queue, pending_requests, dfo, nextDfd,
           lastOp, added, returned, claimed, lifecycle, live >>

(* --------------- scrapy.utils.datatypes priority containers ------------ *)
\* a container object: its class and its (item, priority) entries in push order
PriorityQueue == [cls |-> "PriorityQueue", items |-> << >>]
PriorityStack == [cls |-> "PriorityStack", items |-> << >>]

push(q, item, priority) ==
    [q EXCEPT !.items = Append(@, << item, priority >>)]

len(q) == Len(q.items)

\* the highest priority value held
TopPriority(q) ==
    CHOOSE p \in { q.items[i][2] : i \in 1..Len(q.items) } :
        \A j \in 1..Len(q.items) : q.items[j][2] <= p

\* the entry pop() takes: highest priority; among equals the first pushed
\* (PriorityQueue) or the last pushed (PriorityStack)
PopIndex(q) ==
    LET top == { i \in 1..Len(q.items) : q.items[i][2] = TopPriority(q) }
    IN  IF q.cls = "PriorityStack"
        THEN CHOOSE i \in top : \A j \in top : j <= i
        ELSE CHOOSE i \in top : \A j \in top : i <= j

\* pop() on a non-empty container: the (item, priority) returned ...
pop(q) == q.items[PopIndex(q)]

\* ... and the container it leaves
popped(q) ==
    LET k == PopIndex(q)
    IN  [q EXCEPT !.items = [i \in 1..(Len(@) - 1) |->
                                 IF i < k THEN @[i] ELSE @[i + 1]]]

(* ------------------------------ outcomes ------------------------------ *)
None == << "None" >>
KeyError == << "KeyError" >>
IndexError == << "IndexError" >>
NoDomain == "-"
NoRequest == [name |-> "-", priority |-> 0]

\* the record of one call
Call(op, domain, priority, request, wasPending, wasOpen, wasEmpty, ret) ==
    [op |-> op, domain |-> domain, priority |-> priority, request |-> request,
     wasPending |-> wasPending, wasOpen |-> wasOpen, wasEmpty |-> wasEmpty,
     ret |-> ret]

(* ------------------------------ queries ------------------------------- *)
domain_is_open(domain) == domain \in DOMAIN pending_requests

domain_is_pending(domain) == domain \in pending_domains

\* domain_has_pending_requests that answers for the dict entry, not its content
domain_has_pending_requests_entry(domain) ==
    IF domain \in DOMAIN pending_requests
    THEN << "bool", TRUE >>
    ELSE None

\* None (falsy) for a domain that is not open
domain_has_pending_requests(domain) ==
    IF domain \in DOMAIN pending_requests
    THEN << "bool", len(pending_requests[domain]) > 0 >>
    ELSE None

\* is_idle that also waits for the pending domains
is_idle_pending == DOMAIN pending_requests = {} /\ pending_domains = {}

is_idle == DOMAIN pending_requests = {}

(* ------------------------------- Init --------------------------------- *)
Init ==
    /\ pending_domains = {}
    /\ domains_queue = PriorityQueue
    /\ pending_requests = [d \in {} |-> PriorityQueue]
    /\ dfo \in BOOLEAN
    /\ nextDfd = 1
    /\ lastOp = Call("__init__", NoDomain, 0, NoRequest, FALSE, FALSE, TRUE, None)
    /\ added = << >>
    /\ returned = << >>
    /\ claimed = {}
    /\ lifecycle = TRUE
    /\ live = {}

(* ----------------------------- operations ----------------------------- *)
\* add_domain without the "already pending" test
add_domain_nocheck(domain, priority) ==
    /\ domains_queue' = push(domains_queue, domain, priority)
    /\ pending_domains' = pending_domains \cup {domain}
    /\ added' = Append(added, << domain, priority >>)
    /\ lastOp' = Call("add_domain", domain, priority, NoRequest,
                      domain \in pending_domains, domain_is_open(domain),
                      len(domains_queue) = 0, None)
    /\ lifecycle' = (lifecycle /\ domain \notin claimed /\ ~domain_is_open(domain))
    /\ claimed' = IF lifecycle' THEN claimed ELSE {}
    /\ UNCHANGED << pending_requests, dfo, nextDfd, returned, live >>

\* lines 44-50
add_domain(domain, priority) ==
    /\ IF domain \notin pending_domains
       THEN /\ domains_queue' = push(domains_queue, domain, priority)
            /\ pending_domains' = pending_domains \cup {domain}
            /\ added' = Append(added, << domain, priority >>)
       ELSE UNCHANGED << domains_queue, pending_domains, added >>
    /\ lastOp' = Call("add_domain", domain, priority, NoRequest,
                      domain \in pending_domains, domain_is_open(domain),
                      len(domains_queue) = 0, None)
    /\ lifecycle' = (lifecycle /\ domain \notin claimed /\ ~domain_is_open(domain))
    /\ claimed' = IF lifecycle' THEN claimed ELSE {}
    /\ UNCHANGED << pending_requests, dfo, nextDfd, returned, live >>

\* next_domain that forgets pending_domains.remove(domain)
next_domain_keep ==
    /\ IF pending_domains # {} /\ len(domains_queue) > 0
       THEN LET domain == pop(domains_queue)[1]
            IN  /\ domains_queue' = popped(domains_queue)
                /\ returned' = Append(returned, domain)
                /\ claimed' = IF lifecycle THEN claimed \cup {domain} ELSE {}
                /\ lastOp' = Call("next_domain", NoDomain, 0, NoRequest,
                                  TRUE, FALSE, FALSE, << "domain", domain >>)
       ELSE /\ lastOp' = Call("next_domain", NoDomain, 0, NoRequest,
                              pending_domains # {}, FALSE,
                              len(domains_queue) = 0,
                              IF pending_domains # {} THEN IndexError ELSE None)
            /\ UNCHANGED << domains_queue, returned, claimed >>
    /\ UNCHANGED << pending_domains, pending_requests, dfo, nextDfd, added,
                    lifecycle, live >>

\* next_domain that also allocates the request queue of the domain it returns
next_domain_opens ==
    /\ IF pending_domains # {}
       THEN IF len(domains_queue) = 0
            THEN /\ lastOp' = Call("next_domain", NoDomain, 0, NoRequest,
                                   TRUE, FALSE, TRUE, IndexError)
                 /\ UNCHANGED << domains_queue, pending_domains, returned, claimed,
                                 pending_requests >>
            ELSE LET domain == pop(domains_queue)[1]
                 IN  /\ domains_queue' = popped(domains_queue)
                     /\ IF domain \in pending_domains
                        THEN /\ pending_domains' = pending_domains \ {domain}
                             /\ returned' = Append(returned, domain)
                             /\ claimed' = IF lifecycle THEN claimed \cup {domain} ELSE {}
                             /\ pending_requests' =
                                    [d \in DOMAIN pending_requests \cup {domain} |->
                                        IF d \in DOMAIN pending_requests
                                        THEN pending_requests[d]
                                        ELSE IF dfo THEN PriorityStack
                                                    ELSE PriorityQueue]
                             /\ lastOp' = Call("next_domain", NoDomain, 0, NoRequest,
                                               TRUE, FALSE, FALSE,
                                               << "domain", domain >>)
                        ELSE /\ lastOp' = Call("next_domain", NoDomain, 0, NoRequest,
                                               TRUE, FALSE, FALSE, KeyError)
                             /\ UNCHANGED << pending_domains, returned, claimed,
                                             pending_requests >>
       ELSE /\ lastOp' = Call("next_domain", NoDomain, 0, NoRequest,
                              FALSE, FALSE, len(domains_queue) = 0, None)
            /\ UNCHANGED << domains_queue, pending_domains, returned, claimed,
                            pending_requests >>
    /\ UNCHANGED << dfo, nextDfd, added, lifecycle, live >>

\* lines 37-42: the pop happens before pending_domains.remove can raise
next_domain ==
    /\ IF pending_domains # {}
       THEN IF len(domains_queue) = 0
            THEN /\ lastOp' = Call("next_domain", NoDomain, 0, NoRequest,
                                   TRUE, FALSE, TRUE, IndexError)
                 /\ UNCHANGED << domains_queue, pending_domains, returned, claimed >>
            ELSE LET domain == pop(domains_queue)[1]
                 IN  /\ domains_queue' = popped(domains_queue)
                     /\ IF domain \in pending_domains
                        THEN /\ pending_domains' = pending_domains \ {domain}
                             /\ returned' = Append(returned, domain)
                             /\ claimed' = IF lifecycle THEN claimed \cup {domain} ELSE {}
                             /\ lastOp' = Call("next_domain", NoDomain, 0, NoRequest,
                                               TRUE, FALSE, FALSE,
                                               << "domain", domain >>)
                        ELSE /\ lastOp' = Call("next_domain", NoDomain, 0, NoRequest,
                                               TRUE, FALSE, FALSE, KeyError)
                             /\ UNCHANGED << pending_domains, returned, claimed >>
       ELSE /\ lastOp' = Call("next_domain", NoDomain, 0, NoRequest,
                              FALSE, FALSE, len(domains_queue) = 0, None)
            /\ UNCHANGED << domains_queue, pending_domains, returned, claimed >>
    /\ UNCHANGED << pending_requests, dfo, nextDfd, added, lifecycle, live >>

\* open_domain that ignores self.dfo
open_domain_fifo(domain) ==
    /\ pending_requests' =
           [d \in DOMAIN pending_requests \cup {domain} |->
               IF d = domain THEN PriorityQueue ELSE pending_requests[d]]
    /\ lastOp' = Call("open_domain", domain, 0, NoRequest,
                      domain \in pending_domains, domain_is_open(domain),
                      domain_is_open(domain) => len(pending_requests[domain]) = 0,
                      None)
    /\ lifecycle' = (lifecycle /\ domain \in claimed)
    /\ claimed' = IF lifecycle' THEN claimed \ {domain} ELSE {}
    /\ live' = { t \in live : t[1] # domain }
    /\ UNCHANGED << pending_domains, domains_queue, dfo, nextDfd, added, returned >>

\* open_domain that keeps the queue of a domain that is already open
open_domain_keep(domain) ==
    /\ pending_requests' =
           [d \in DOMAIN pending_requests \cup {domain} |->
               IF d \in DOMAIN pending_requests
               THEN pending_requests[d]
               ELSE (IF dfo THEN PriorityStack ELSE PriorityQueue)]
    /\ lastOp' = Call("open_domain", domain, 0, NoRequest,
                      domain \in pending_domains, domain_is_open(domain),
                      domain_is_open(domain) => len(pending_requests[domain]) = 0,
                      None)
    /\ lifecycle' = (lifecycle /\ domain \in claimed)
    /\ claimed' = IF lifecycle' THEN claimed \ {domain} ELSE {}
    /\ UNCHANGED << pending_domains, domains_queue, dfo, nextDfd, added, returned,
                    live >>

\* lines 52-55
open_domain(domain) ==
    /\ pending_requests' =
           [d \in DOMAIN pending_requests \cup {domain} |->
               IF d = domain
               THEN (IF dfo THEN PriorityStack ELSE PriorityQueue)
               ELSE pending_requests[d]]
    /\ lastOp' = Call("open_domain", domain, 0, NoRequest,
                      domain \in pending_domains, domain_is_open(domain),
                      domain_is_open(domain) => len(pending_requests[domain]) = 0,
                      None)
    /\ lifecycle' = (lifecycle /\ domain \in claimed)
    /\ claimed' = IF lifecycle' THEN claimed \ {domain} ELSE {}
    /\ live' = { t \in live : t[1] # domain }
    /\ UNCHANGED << pending_domains, domains_queue, dfo, nextDfd, added, returned >>

\* enqueue_request that fires the Deferred right away
enqueue_request_fired(domain, request) ==
    /\ IF domain \in DOMAIN pending_requests
       THEN LET dfd == [id |-> nextDfd, called |-> TRUE]
            IN  /\ pending_requests' =
                       [pending_requests EXCEPT
                           ![domain] = push(@, << request, dfd >>, request.priority)]
                /\ nextDfd' = nextDfd + 1
                /\ live' = live \cup {<< domain, request, dfd >>}
                /\ lastOp' = Call("enqueue_request", domain, 0, request,
                                  domain \in pending_domains, TRUE,
                                  len(pending_requests[domain]) = 0,
                                  << "dfd", dfd >>)
       ELSE /\ lastOp' = Call("enqueue_request", domain, 0, request,
                              domain \in pending_domains, FALSE, TRUE, KeyError)
            /\ UNCHANGED << pending_requests, nextDfd, live >>
    /\ UNCHANGED << pending_domains, domains_queue, dfo, added, returned,
                    claimed, lifecycle >>

\* enqueue_request that creates the missing queue instead of failing
enqueue_request_autoopen(domain, request) ==
    /\ LET dfd == [id |-> nextDfd, called |-> FALSE]
           queue == IF domain \in DOMAIN pending_requests
                    THEN pending_requests[domain]
                    ELSE IF dfo THEN PriorityStack ELSE PriorityQueue
       IN  /\ pending_requests' =
                  [d \in DOMAIN pending_requests \cup {domain} |->
                      IF d = domain
                      THEN push(queue, << request, dfd >>, request.priority)
                      ELSE pending_requests[d]]
           /\ nextDfd' = nextDfd + 1
           /\ live' = live \cup {<< domain, request, dfd >>}
           /\ lastOp' = Call("enqueue_request", domain, 0, request,
                             domain \in pending_domains, domain_is_open(domain),
                             len(queue) = 0, << "dfd", dfd >>)
    /\ UNCHANGED << pending_domains, domains_queue, dfo, added, returned,
                    claimed, lifecycle >>

\* lines 57-61: the lookup raises KeyError for a domain that is not open
enqueue_request(domain, request) ==
    /\ IF domain \in DOMAIN pending_requests
       THEN LET dfd == [id |-> nextDfd, called |-> FALSE]
            IN  /\ pending_requests' =
                       [pending_requests EXCEPT
                           ![domain] = push(@, << request, dfd >>, request.priority)]
                /\ nextDfd' = nextDfd + 1
                /\ live' = live \cup {<< domain, request, dfd >>}
                /\ lastOp' = Call("enqueue_request", domain, 0, request,
                                  domain \in pending_domains, TRUE,
                                  len(pending_requests[domain]) = 0,
                                  << "dfd", dfd >>)
       ELSE /\ lastOp' = Call("enqueue_request", domain, 0, request,
                              domain \in pending_domains, FALSE, TRUE, KeyError)
            /\ UNCHANGED << pending_requests, nextDfd, live >>
    /\ UNCHANGED << pending_domains, domains_queue, dfo, added, returned,
                    claimed, lifecycle >>

\* (None, None)
NonePair == << "(None, None)" >>

\* next_request that reads the top pair without taking it out of the queue
next_request_peek(domain) ==
    /\ IF domain \in DOMAIN pending_requests /\ len(pending_requests[domain]) > 0
       THEN LET item == pop(pending_requests[domain])[1]
            IN  /\ live' = { t \in live : t[3] # item[2] }
                /\ lastOp' = Call("next_request", domain, 0, NoRequest,
                                  domain \in pending_domains, TRUE, FALSE,
                                  << "pair", item[1], item[2] >>)
       ELSE /\ lastOp' = Call("next_request", domain, 0, NoRequest,
                              domain \in pending_domains, domain_is_open(domain),
                              TRUE, NonePair)
            /\ UNCHANGED live
    /\ UNCHANGED << pending_domains, domains_queue, pending_requests, dfo, nextDfd,
                    added, returned, claimed, lifecycle >>

\* next_request on a dict that creates the missing queue on lookup
next_request_opens(domain) ==
    /\ IF domain \in DOMAIN pending_requests /\ len(pending_requests[domain]) > 0
       THEN LET item == pop(pending_requests[domain])[1]
            IN  /\ pending_requests' =
                       [pending_requests EXCEPT ![domain] = popped(@)]
                /\ live' = { t \in live : t[3] # item[2] }
                /\ lastOp' = Call("next_request", domain, 0, NoRequest,
                                  domain \in pending_domains, TRUE, FALSE,
                                  << "pair", item[1], item[2] >>)
       ELSE /\ lastOp' = Call("next_request", domain, 0, NoRequest,
                              domain \in pending_domains, domain_is_open(domain),
                              TRUE, NonePair)
            /\ pending_requests' =
                   [d \in DOMAIN pending_requests \cup {domain} |->
                       IF d \in DOMAIN pending_requests THEN pending_requests[d]
                       ELSE IF dfo THEN PriorityStack ELSE PriorityQueue]
            /\ UNCHANGED live
    /\ UNCHANGED << pending_domains, domains_queue, dfo, nextDfd, added, returned,
                    claimed, lifecycle >>

\* lines 63-75: KeyError and IndexError both become (None, None)
next_request(domain) ==
    /\ IF domain \in DOMAIN pending_requests /\ len(pending_requests[domain]) > 0
       THEN LET item == pop(pending_requests[domain])[1]
            IN  /\ pending_requests' =
                       [pending_requests EXCEPT ![domain] = popped(@)]
                /\ live' = { t \in live : t[3] # item[2] }
                /\ lastOp' = Call("next_request", domain, 0, NoRequest,
                                  domain \in pending_domains, TRUE, FALSE,
                                  << "pair", item[1], item[2] >>)
       ELSE /\ lastOp' = Call("next_request", domain, 0, NoRequest,
                              domain \in pending_domains, domain_is_open(domain),
                              TRUE, NonePair)
            /\ UNCHANGED << pending_requests, live >>
    /\ UNCHANGED << pending_domains, domains_queue, dfo, nextDfd, added, returned,
                    claimed, lifecycle >>

\* close_domain that frees the queue only when nothing is left in it
close_domain_ifempty(domain) ==
    /\ IF domain_is_open(domain) /\ len(pending_requests[domain]) > 0
       THEN UNCHANGED << pending_requests, live >>
       ELSE /\ pending_requests' =
                   [d \in DOMAIN pending_requests \ {domain} |-> pending_requests[d]]
            /\ live' = { t \in live : t[1] # domain }
    /\ lastOp' = Call("close_domain", domain, 0, NoRequest,
                      domain \in pending_domains, domain_is_open(domain),
                      domain_is_open(domain) => len(pending_requests[domain]) = 0,
                      None)
    /\ UNCHANGED << pending_domains, domains_queue, dfo, nextDfd, added, returned,
                    claimed, lifecycle >>

\* close_domain that empties the whole dict
close_domain_clear(domain) ==
    /\ pending_requests' =
           IF domain_is_open(domain)
           THEN [d \in {} |-> PriorityQueue]
           ELSE pending_requests
    /\ lastOp' = Call("close_domain", domain, 0, NoRequest,
                      domain \in pending_domains, domain_is_open(domain),
                      domain_is_open(domain) => len(pending_requests[domain]) = 0,
                      None)
    /\ live' = IF domain_is_open(domain) THEN {} ELSE live
    /\ UNCHANGED << pending_domains, domains_queue, dfo, nextDfd, added, returned,
                    claimed, lifecycle >>

\* lines 77-81
close_domain(domain) ==
    /\ pending_requests' =
           [d \in DOMAIN pending_requests \ {domain} |-> pending_requests[d]]
    /\ lastOp' = Call("close_domain", domain, 0, NoRequest,
                      domain \in pending_domains, domain_is_open(domain),
                      domain_is_open(domain) => len(pending_requests[domain]) = 0,
                      None)
    /\ live' = { t \in live : t[1] # domain }
    /\ UNCHANGED << pending_domains, domains_queue, dfo, nextDfd, added, returned,
                    claimed, lifecycle >>

\* remove_pending_domain that returns 0 for a domain that is not pending
remove_pending_domain_zero(domain) ==
    /\ IF domain \in pending_domains /\ ~domain_is_open(domain)
       THEN pending_domains' = pending_domains \ {domain}
       ELSE UNCHANGED pending_domains
    /\ lastOp' = Call("remove_pending_domain", domain, 0, NoRequest,
                      domain \in pending_domains, domain_is_open(domain),
                      len(domains_queue) = 0,
                      IF domain \in pending_domains THEN None ELSE << "int", 0 >>)
    /\ UNCHANGED << domains_queue, pending_requests, dfo, nextDfd, added, returned,
                    claimed, lifecycle, live >>

\* lines 83-96: set.remove returns None; domains_queue is not touched
remove_pending_domain(domain) ==
    /\ IF domain \in pending_domains /\ ~domain_is_open(domain)
       THEN pending_domains' = pending_domains \ {domain}
       ELSE UNCHANGED pending_domains
    /\ lastOp' = Call("remove_pending_domain", domain, 0, NoRequest,
                      domain \in pending_domains, domain_is_open(domain),
                      len(domains_queue) = 0, None)
    /\ UNCHANGED << domains_queue, pending_requests, dfo, nextDfd, added, returned,
                    claimed, lifecycle, live >>

(* --------------------------- specifications --------------------------- *)
\* any caller: every operation, any argument
Next ==
    \/ \E domain \in Domains, priority \in Priorities :
          /\ domain \in pending_domains \/ Len(added) < MaxAdds
          /\ add_domain(domain, priority)
    \/ next_domain
    \/ \E domain \in Domains : remove_pending_domain(domain)
    \/ \E domain \in Domains : open_domain(domain)
    \/ \E domain \in Domains : close_domain(domain)
    \/ \E domain \in Domains, request \in {R1} :
          /\ ~domain_is_open(domain) \/ nextDfd <= MaxDfd
          /\ enqueue_request(domain, request)
    \/ \E domain \in Domains : next_request(domain)

Spec == Init /\ [][Next]_vars

\* a fresh scheduler that is given domains and then drained by next_domain
NextAddDrain ==
    \/ \E domain \in DrainDomains, priority \in Priorities :
          /\ returned = << >>
          /\ add_domain(domain, priority)
    \/ next_domain

SpecAddDrain == Init /\ [][NextAddDrain]_vars

\* any caller, but open_domain only for a domain next_domain has returned before
NextClaimed ==
    \/ \E domain \in Domains, priority \in Priorities :
          /\ domain \in pending_domains \/ Len(added) < MaxAdds
          /\ add_domain(domain, priority)
    \/ next_domain
    \/ \E domain \in Domains : remove_pending_domain(domain)
    \/ \E domain \in Domains :
          /\ \E i \in 1..Len(returned) : returned[i] = domain
          /\ open_domain(domain)
    \/ \E domain \in Domains : close_domain(domain)
    \/ \E domain \in Domains, request \in {R1} :
          /\ ~domain_is_open(domain) \/ nextDfd <= MaxDfd
          /\ enqueue_request(domain, request)
    \/ \E domain \in Domains : next_request(domain)

SpecClaimed == Init /\ [][NextClaimed]_vars

\* the request side alone: producers and the consumer on the open domains
NextRequests ==
    \/ \E domain \in Domains : open_domain(domain)
    \/ \E domain \in Domains : close_domain(domain)
    \/ \E domain \in Domains, request \in Requests :
          /\ ~domain_is_open(domain) \/ nextDfd <= MaxDfdReq
          /\ enqueue_request(domain, request)
    \/ \E domain \in Domains : next_request(domain)

SpecRequests == Init /\ [][NextRequests]_vars

\* the domain that is filled and then only drained
DrainedDomain == "d1"

\* producers and the consumer until every Deferred of the run is handed out;
\* from then on DrainedDomain is neither opened nor closed nor enqueued to, and
\* the consumer keeps calling next_request for it
NextFillThenDrain ==
    \/ \E domain \in Domains :
          /\ domain = DrainedDomain => nextDfd <= MaxDfdReq
          /\ open_domain(domain)
    \/ \E domain \in Domains :
          /\ domain = DrainedDomain => nextDfd <= MaxDfdReq
          /\ close_domain(domain)
    \/ \E domain \in Domains, request \in Requests :
          /\ nextDfd <= MaxDfdReq
          /\ enqueue_request(domain, request)
    \/ \E domain \in Domains : next_request(domain)

SpecFillThenDrain ==
    /\ Init
    /\ [][NextFillThenDrain]_vars
    /\ WF_vars(next_request(DrainedDomain))

(* ------------------------- helpers of the claims ---------------------- *)
Range(seq) == { seq[i] : i \in 1..Len(seq) }

\* the domains held in domains_queue
QueueDomains == { domains_queue.items[i][1] : i \in 1..len(domains_queue) }

OpenDomains == DOMAIN pending_requests

\* the (request, dfd) pairs queued for an open domain
QueuedPairs(domain) ==
    { pending_requests[domain].items[i][1] :
          i \in 1..len(pending_requests[domain]) }

(* ------------------------------- C1 ----------------------------------- *)
\* C1: after any sequence of operations the domains held in domains_queue are
\* exactly pending_domains, each pending domain held exactly once.
C1_QueueIsPendingSet ==
    /\ QueueDomains = pending_domains
    /\ \A i, j \in 1..len(domains_queue) :
          i # j => domains_queue.items[i][1] # domains_queue.items[j][1]

(* ------------------------------- C2 ----------------------------------- *)
AddedDomains == { added[i][1] : i \in 1..Len(added) }
AddIndex(domain) == CHOOSE i \in 1..Len(added) : added[i][1] = domain

\* C2: add_domain calls on a fresh scheduler followed by next_domain calls: no
\* pending domain is held twice, every added domain is returned exactly once,
\* in non-increasing priority order with ties first-added-first-returned, and
\* next_domain returns None once nothing is pending.
C2_AddThenDrain ==
    /\ C1_QueueIsPendingSet
    /\ \A i, j \in 1..Len(added) : i # j => added[i][1] # added[j][1]
    /\ \A i, j \in 1..Len(returned) : i # j => returned[i] # returned[j]
    /\ Range(returned) \cap pending_domains = {}
    /\ Range(returned) \cup pending_domains = AddedDomains
    /\ \A i, j \in 1..Len(returned) :
          i < j =>
             LET a == AddIndex(returned[i])
                 b == AddIndex(returned[j])
             IN  \/ added[a][2] > added[b][2]
                 \/ added[a][2] = added[b][2] /\ a < b
    /\ (lastOp.op = "next_domain" /\ lastOp.wasPending)
          => lastOp.ret = << "domain", returned[Len(returned)] >>
    /\ (lastOp.op = "next_domain" /\ ~lastOp.wasPending) => lastOp.ret = None

\* three domains, one tie and one overtaking priority, drained to the end
C2_Witness ==
    /\ Len(added) = 3
    /\ Len(returned) = 3
    /\ pending_domains = {}
    /\ lastOp.op = "next_domain"
    /\ lastOp.ret = None
    /\ added[1][2] = added[2][2]
    /\ added[3][2] > added[1][2]
    /\ returned = << added[3][1], added[1][1], added[2][1] >>

(* ------------------------------- C3 ----------------------------------- *)
\* C3: add_domain(D, p2) while D is pending leaves pending_domains and
\* domains_queue as they were: D keeps its priority and is not queued again.
C3_AddPendingIsNoOp ==
    [][ (lastOp'.op = "add_domain" /\ lastOp'.domain \in pending_domains)
           => /\ pending_domains' = pending_domains
              /\ domains_queue' = domains_queue ]_vars

\* a pending domain was added again, with another priority than it is queued at
C3_Witness ==
    /\ lastOp.op = "add_domain"
    /\ lastOp.wasPending
    /\ \E i \in 1..len(domains_queue) :
          /\ domains_queue.items[i][1] = lastOp.domain
          /\ domains_queue.items[i][2] # lastOp.priority
    /\ Cardinality({ i \in 1..len(domains_queue) :
                        domains_queue.items[i][1] = lastOp.domain }) = 1

(* ------------------------------- C4 ----------------------------------- *)
\* C4: when open_domain is only called on a domain next_domain has returned
\* before (every other operation called freely), no domain is both pending
\* and open.
C4_NeverPendingAndOpen ==
    pending_domains \cap OpenDomains = {}

\* C4 as amended: when every open_domain(D) is called on a domain returned by
\* next_domain and not opened since, and add_domain(D) is never called while D
\* is claimed or open, no domain is both pending and open.
C4_LifecycleNeverPendingAndOpen ==
    lifecycle => pending_domains \cap OpenDomains = {}

\* the lifecycle was followed: one domain is open while another is pending
C4_Witness ==
    /\ lifecycle
    /\ OpenDomains # {}
    /\ pending_domains # {}
    /\ lastOp.op = "open_domain"

(* ------------------------------- C5 ----------------------------------- *)
\* C5: whenever pending_domains is non-empty, next_domain raises no fault and
\* returns a domain that was pending right before the call, removing it.
C5_NextDomainReturnsPending ==
    [][ (lastOp'.op = "next_domain" /\ pending_domains # {})
           => /\ lastOp'.ret[1] = "domain"
              /\ lastOp'.ret[2] \in pending_domains
              /\ pending_domains' = pending_domains \ {lastOp'.ret[2]} ]_vars

(* ------------------------------- C6 ----------------------------------- *)
\* C6: remove_pending_domain(D) for a pending domain that is not open makes D
\* not pending and returns the number of times D was enqueued, an integer.
C6_RemoveReturnsCount ==
    (lastOp.op = "remove_pending_domain" /\ lastOp.wasPending /\ ~lastOp.wasOpen)
       => /\ lastOp.domain \notin pending_domains
          /\ lastOp.ret[1] = "int"

(* ------------------------------- C7 ----------------------------------- *)
\* C7: remove_pending_domain(D) for an open domain removes nothing, and its
\* outcome differs from the outcome of removing a pending domain.
C7_OpenOutcomeDistinct ==
    [][ (lastOp'.op = "remove_pending_domain" /\ domain_is_open(lastOp'.domain))
           => /\ UNCHANGED << pending_domains, domains_queue, pending_requests >>
              /\ (lastOp.op = "remove_pending_domain"
                     /\ lastOp.wasPending /\ ~lastOp.wasOpen)
                    => lastOp'.ret # lastOp.ret ]_vars

RECURSIVE DrainOrder(_)
DrainOrder(q) ==
    IF len(q) = 0 THEN << >>
    ELSE << pop(q)[1][1].name >> \o DrainOrder(popped(q))

\* C9: next_request returns the pair of strictly highest priority; among equal
\* priorities the oldest under breadth-first, the newest under depth-first.
\* R1(p=1), R2(p=1), R3(p=2) come back as R3, R1, R2 resp. R3, R2, R1.
C9_DequeueOrder ==
    /\ [][ \A domain \in Domains :
             (lastOp'.op = "next_request" /\ lastOp'.domain = domain
                 /\ domain_is_open(domain) /\ len(pending_requests[domain]) > 0)
                => /\ lastOp'.ret[1] = "pair"
                   /\ << lastOp'.ret[2], lastOp'.ret[3] >> \in QueuedPairs(domain)
                   /\ \A e \in QueuedPairs(domain) \ {<< lastOp'.ret[2], lastOp'.ret[3] >>} :
                         \/ e[1].priority < lastOp'.ret[2].priority
                         \/ /\ e[1].priority = lastOp'.ret[2].priority
                            /\ IF dfo THEN e[2].id < lastOp'.ret[3].id
                                      ELSE e[2].id > lastOp'.ret[3].id ]_vars
    /\ [](\A domain \in OpenDomains :
             (/\ len(pending_requests[domain]) = 3
              /\ \A i \in 1..3 :
                    pending_requests[domain].items[i][1][1] = << R1, R2, R3 >>[i])
                => DrainOrder(pending_requests[domain]) =
                      IF dfo THEN << "R3", "R2", "R1" >> ELSE << "R3", "R1", "R2" >>)

\* R1, R2, R3 were enqueued in that order; two dequeues later R3 and the first
\* of the tie are gone and the other one of the tie is left
C9_Witness ==
    \E domain \in OpenDomains :
        /\ nextDfd = 4
        /\ lastOp.op = "next_request"
        /\ lastOp.domain = domain
        /\ len(pending_requests[domain]) = 1
        /\ lastOp.ret = << "pair", (IF dfo THEN R2 ELSE R1),
                           [id |-> (IF dfo THEN 2 ELSE 1), called |-> FALSE] >>
        /\ pending_requests[domain].items[1][1] =
              << (IF dfo THEN R1 ELSE R2),
                 [id |-> (IF dfo THEN 1 ELSE 2), called |-> FALSE] >>

(* ------------------------------- C10 ---------------------------------- *)
\* C10: enqueue_request(D, r) on an open domain with an empty queue, returning
\* h, followed at once by next_request(D) returns exactly (r, h); h is not
\* resolved by the scheduler while the pair is queued.
C10_EnqueueThenNext ==
    /\ [][ (lastOp.op = "enqueue_request" /\ lastOp.wasOpen /\ lastOp.wasEmpty
               /\ lastOp'.op = "next_request" /\ lastOp'.domain = lastOp.domain)
              => /\ lastOp'.ret = << "pair", lastOp.request, lastOp.ret[2] >>
                 /\ ~lastOp'.ret[3].called ]_vars
    /\ [](\A domain \in OpenDomains :
             \A e \in QueuedPairs(domain) : ~e[2].called)
    /\ []((lastOp.op = "enqueue_request" /\ lastOp.wasOpen)
             => /\ lastOp.ret[1] = "dfd"
                /\ ~lastOp.ret[2].called
                /\ << lastOp.request, lastOp.ret[2] >> \in QueuedPairs(lastOp.domain))

\* the pair enqueued into an empty queue has just been handed back
C10_Witness ==
    /\ lastOp.op = "next_request"
    /\ lastOp.ret[1] = "pair"
    /\ lastOp.ret[3].id = nextDfd - 1
    /\ nextDfd > 2
    /\ len(pending_requests[lastOp.domain]) = 0

(* ------------------------------- C11 ---------------------------------- *)
\* every (domain, request, Deferred) a next_request call can still hand back
Deliverable ==
    UNION { { << d, e[1], e[2] >> : e \in QueuedPairs(d) } : d \in OpenDomains }

\* C11: a handle is delivered by next_request at most once, only for the domain
\* and with the request it was enqueued with, never before it was enqueued,
\* and never after its pair was discarded by close_domain or a re-opening.
C11_HandleDeliveredOnce ==
    /\ [](Deliverable = live)
    /\ [](\A t \in live : t[3].id < nextDfd)
    /\ [](\A t, u \in live : t[3].id = u[3].id => t = u)
    /\ [][ \A domain \in Domains :
             (lastOp'.op = "next_request" /\ lastOp'.domain = domain
                 /\ lastOp'.ret[1] = "pair")
                => /\ << domain, lastOp'.ret[2], lastOp'.ret[3] >> \in live
                   /\ \A t \in live' : t[3] # lastOp'.ret[3] ]_vars
    /\ [][ (lastOp'.op = "enqueue_request" /\ lastOp'.ret[1] = "dfd")
              => /\ lastOp'.ret[2].id = nextDfd
                 /\ \A t \in live : t[3] # lastOp'.ret[2] ]_vars

\* of three handles the first is gone, the second was delivered just now and
\* the third is still queued for the same domain
C11_Witness ==
    /\ nextDfd = 4
    /\ lastOp.op = "next_request"
    /\ lastOp.ret[1] = "pair"
    /\ lastOp.ret[3].id = 2
    /\ Cardinality(live) = 1
    /\ \A t \in live : t[3].id = 3 /\ t[1] = lastOp.domain

(* ------------------------------- C12 ---------------------------------- *)
\* C12: next_request(D) returns (None, None) when D is not open and when D is
\* open with an empty queue; it raises nothing and changes nothing, and does
\* not open D.
C12_NextRequestNothing ==
    [][ \A domain \in Domains :
          (lastOp'.op = "next_request" /\ lastOp'.domain = domain
              /\ (domain_is_open(domain) => len(pending_requests[domain]) = 0))
             => /\ lastOp'.ret = NonePair
                /\ UNCHANGED << pending_domains, domains_queue, pending_requests,
                                dfo, nextDfd >> ]_vars

\* next_request found a domain that is pending but not open, beside an open one
C12_WitnessNotOpen ==
    /\ lastOp.op = "next_request"
    /\ ~lastOp.wasOpen
    /\ lastOp.wasPending
    /\ lastOp.ret = NonePair
    /\ ~domain_is_open(lastOp.domain)
    /\ OpenDomains # {}

(* ------------------------------- C13 ---------------------------------- *)
\* C13: close_domain(D) discards D's queue with every request in it: D is not
\* open afterwards, next_request(D) returns (None, None), and no discarded
\* pair is queued again, also when D is opened again later.
C13_CloseDiscards ==
    /\ [][ lastOp'.op = "close_domain"
              => /\ lastOp'.domain \notin DOMAIN pending_requests'
                 /\ \A t \in live' : t[1] # lastOp'.domain ]_vars
    /\ [][ (lastOp.op = "close_domain" /\ lastOp'.op = "next_request"
               /\ lastOp'.domain = lastOp.domain)
              => lastOp'.ret = NonePair ]_vars
    /\ [](lastOp.op = "close_domain" => ~domain_is_open(lastOp.domain))
    /\ [](\A d \in OpenDomains :
             \A e \in QueuedPairs(d) : << d, e[1], e[2] >> \in live)

\* a domain was closed with two requests still queued
C13_Witness ==
    /\ lastOp.op = "close_domain"
    /\ lastOp.wasOpen
    /\ ~lastOp.wasEmpty
    /\ nextDfd = 3
    /\ live = {}
    /\ ~domain_is_open(lastOp.domain)

C15_EnqueueNotOpenFails ==
    [][ (lastOp'.op = "enqueue_request" /\ ~domain_is_open(lastOp'.domain))
           => /\ lastOp'.ret = KeyError
              /\ UNCHANGED << pending_domains, domains_queue, pending_requests,
                              dfo, nextDfd, live >> ]_vars

\* a request was offered for a pending domain that is not open, beside an open one
C15_Witness ==
    /\ lastOp.op = "enqueue_request"
    /\ ~lastOp.wasOpen
    /\ lastOp.wasPending
    /\ lastOp.ret = KeyError
    /\ ~domain_is_open(lastOp.domain)
    /\ OpenDomains # {}

(* ------------------------------- C16 ---------------------------------- *)
\* C16: domain_is_open(D) turns true only by open_domain(D) and false only by
\* close_domain(D); no other operation, and no operation on another domain,
\* changes it. next_domain does not open the domain it returns.
C16_OpenOnlyByOpenClose ==
    [][ \A d \in Domains :
          /\ (~domain_is_open(d) /\ d \in DOMAIN pending_requests')
                => (lastOp'.op = "open_domain" /\ lastOp'.domain = d)
          /\ (domain_is_open(d) /\ d \notin DOMAIN pending_requests')
                => (lastOp'.op = "close_domain" /\ lastOp'.domain = d) ]_vars

\* next_domain has just returned a domain, which is not open, beside an open one
C16_Witness ==
    /\ lastOp.op = "next_domain"
    /\ lastOp.ret[1] = "domain"
    /\ ~domain_is_open(lastOp.ret[2])
    /\ OpenDomains # {}

(* ------------------------------- C17 ---------------------------------- *)
\* C17: right after open_domain(D), D is open with a fresh empty queue of the
\* configured discipline: domain_has_pending_requests(D) is false and
\* next_request(D) returns (None, None), also when D was open with requests
\* queued, which are dropped without any error.
C17_OpenInstallsEmptyQueue ==
    /\ [](lastOp.op = "open_domain"
             => /\ lastOp.ret = None
                /\ domain_is_open(lastOp.domain)
                /\ domain_has_pending_requests(lastOp.domain) = << "bool", FALSE >>
                /\ pending_requests[lastOp.domain] =
                      (IF dfo THEN PriorityStack ELSE PriorityQueue)
                /\ \A t \in live : t[1] # lastOp.domain)
    /\ [][ (lastOp.op = "open_domain" /\ lastOp'.op = "next_request"
               /\ lastOp'.domain = lastOp.domain)
              => lastOp'.ret = NonePair ]_vars

\* a domain that was open with two requests queued has been opened again
C17_Witness ==
    /\ lastOp.op = "open_domain"
    /\ lastOp.wasOpen
    /\ ~lastOp.wasEmpty
    /\ nextDfd = 3
    /\ live = {}
    /\ len(pending_requests[lastOp.domain]) = 0

(* ------------------------------- C18 ---------------------------------- *)
\* truthiness of a returned value
Truthy(value) == value = << "bool", TRUE >>

\* C18: domain_has_pending_requests(D) is truthy exactly when D is open and its
\* queue is non-empty, that is exactly when the next next_request(D) returns a
\* real pair; for a domain that is not open it is falsy.
C18_HasPendingRequests ==
    /\ [](\A d \in Domains :
             Truthy(domain_has_pending_requests(d))
                <=> (domain_is_open(d) /\ QueuedPairs(d) # {}))
    /\ [](\A d \in Domains :
             ~domain_is_open(d) => domain_has_pending_requests(d) = None)
    /\ [][ \A d \in Domains :
             (lastOp'.op = "next_request" /\ lastOp'.domain = d)
                => (lastOp'.ret[1] = "pair"
                       <=> Truthy(domain_has_pending_requests(d))) ]_vars

\* next_request took the last pair of one domain while the other open domain
\* still holds one
C18_Witness ==
    /\ lastOp.op = "next_request"
    /\ lastOp.ret[1] = "pair"
    /\ domain_has_pending_requests(lastOp.domain) = << "bool", FALSE >>
    /\ \E d \in Domains : Truthy(domain_has_pending_requests(d))

Draining == nextDfd > MaxDfdReq

\* the pairs still queued for DrainedDomain
DrainQueue ==
    IF domain_is_open(DrainedDomain) THEN QueuedPairs(DrainedDomain) ELSE {}

\* C20: once an open domain holding n requests is only drained, each
\* next_request(D) hands back one queued pair and takes exactly that pair out,
\* so n calls return the n pairs once each; after that every call returns
\* (None, None); with next_request(D) repeated fairly the queue ends empty, and
\* a pair leaves it only by being handed back, so every enqueued pair
\* eventually is.
C20_DrainingTerminates ==
    /\ [](domain_is_open(DrainedDomain)
             => Cardinality(DrainQueue) = len(pending_requests[DrainedDomain]))
    /\ [][ (Draining /\ lastOp'.op = "next_request"
               /\ lastOp'.domain = DrainedDomain)
              => IF DrainQueue # {}
                 THEN /\ lastOp'.ret[1] = "pair"
                      /\ << lastOp'.ret[2], lastOp'.ret[3] >> \in DrainQueue
                      /\ DrainQueue' =
                            DrainQueue \ {<< lastOp'.ret[2], lastOp'.ret[3] >>}
                 ELSE /\ lastOp'.ret = NonePair
                      /\ DrainQueue' = {} ]_vars
    /\ [][ (Draining /\ DrainQueue' # DrainQueue)
              => /\ lastOp'.op = "next_request"
                 /\ lastOp'.domain = DrainedDomain
                 /\ lastOp'.ret[1] = "pair"
                 /\ DrainQueue \ DrainQueue' =
                       {<< lastOp'.ret[2], lastOp'.ret[3] >>}
                 /\ DrainQueue' \subseteq DrainQueue ]_vars
    /\ Draining ~> (DrainQueue = {})

\* the last pair queued for the drained domain has just been handed back
C20_Witness ==
    /\ Draining
    /\ lastOp.op = "next_request"
    /\ lastOp.domain = DrainedDomain
    /\ lastOp.ret[1] = "pair"
    /\ domain_is_open(DrainedDomain)
    /\ DrainQueue = {}
    /\ live = {}

====
